---- MODULE Spec2Model ----
(***************************************************************************)
(* The two example chatbot clients of pgedge-postgres-mcp:                 *)
(*   variant "A"  examples/http-ollama-chatbot/chatbot.py                  *)
(*                (HTTP JSON-RPC tool server, convention-based tool calls) *)
(*   variant "B"  examples/stdio-anthropic-chatbot/chatbot.py              *)
(*                (pipe tool server, structured tool_use blocks)           *)
(* One behaviour is one process run of one variant.  An action is the code *)
(* that runs between two suspension points (input(), an awaited request,   *)
(* the blocking LLM call): the requests the driver issues are the records  *)
(* in inflight, and the action that consumes a reply runs the handler up   *)
(* to the next request it issues.                                          *)
(***************************************************************************)
EXTENDS Integers, Sequences, FiniteSets, TLC

VARIABLES
    variant,       \* "A" (http-ollama) or "B" (stdio-anthropic)
    config,        \* the environment variables / files main() looks at
    pc,            \* where main() / chat_loop() / process_query() is suspended
    constructed,   \* PostgresChatbot() has been constructed (client resources held)
    messages,      \* chat_loop's conversation history
    tools,         \* A: the tool list chat_loop fetched once
    request_id,    \* A: self.request_id
    iteration,     \* A: the for-loop variable of process_query
    response,      \* the LLM response process_query is working on
    blockIdx,      \* B: position of the content block whose tool call is in flight
    tool_results,  \* B: the tool_results list being collected
    inflight,      \* requests issued and not yet answered
    exitBy,        \* why the session is over: "none" while it is not
    outcome,       \* how the last turn ended: "none", "answer", "error"
    answer,        \* the value process_query returned last
    llmCalls,      \* LLM calls issued in the current turn
    toolCalls,     \* tool calls issued in the current turn
    toolErrors,    \* failed tool calls of the session (environment budget)
    toolFailed,    \* the last tool call of the current turn failed
    inputError,    \* the last input() raised and the handler printed the error
    cleanups       \* number of times cleanup() has run

vars == <<variant, config, pc, constructed, messages, tools, request_id, iteration,
          response, blockIdx, tool_results, inflight, exitBy, outcome, answer,
          llmCalls, toolCalls, toolErrors, toolFailed, inputError, cleanups>>

(***************************************************************************)
(* Bounds of the model.                                                    *)
(***************************************************************************)
\* a new question is read only while the history holds at most this many messages
MaxPromptHistory == 2
\* the tool server fails at most this many tool calls in a session
MaxToolErrors == 1
\* B: the LLM answers with stop reason tool_use at most this many times in one turn
MaxRoundsB == 1

\* the registries whose rendering is explored hold at most this many tools
MaxTools == 3
\* after a failed turn a new question is read while the history holds at most
\* this many messages
MaxRetryHistory == 3
\* B: the tool_use responses of the one long turn explored on its own
MaxLongRoundsB == 11

(***************************************************************************)
(* Program constants.                                                      *)
(***************************************************************************)
\* for iteration in range(10)
MaxIterations == 10

Apology == "I apologize, but I've reached the maximum number of tool calls. Please try rephrasing your question."

NoResponse == [stop_reason |-> "none", content |-> <<>>]

(***************************************************************************)
(* str.strip() and str.lower() on a line of input, a sequence of           *)
(* one-character strings.                                                  *)
(***************************************************************************)
Whitespace == {" ", "\t", "\n"}

RECURSIVE LStrip(_)
LStrip(s) == IF s # <<>> /\ Head(s) \in Whitespace THEN LStrip(Tail(s)) ELSE s

RECURSIVE RStrip(_)
RStrip(s) ==
    IF s # <<>> /\ s[Len(s)] \in Whitespace THEN RStrip(SubSeq(s, 1, Len(s) - 1)) ELSE s

Strip(s) == RStrip(LStrip(s))

UpperLetters == <<"A", "B", "C", "D", "E", "F", "G", "H", "I", "J", "K", "L", "M",
                  "N", "O", "P", "Q", "R", "S", "T", "U", "V", "W", "X", "Y", "Z">>

LowerLetters == <<"a", "b", "c", "d", "e", "f", "g", "h", "i", "j", "k", "l", "m",
                  "n", "o", "p", "q", "r", "s", "t", "u", "v", "w", "x", "y", "z">>

LowerChar(c) ==
    IF \E i \in 1..26 : UpperLetters[i] = c
    THEN LowerLetters[CHOOSE i \in 1..26 : UpperLetters[i] = c]
    ELSE c

Lower(s) == [i \in 1..Len(s) |-> LowerChar(s[i])]

\* ['quit', 'exit', 'q']
QuitCommands == {<<"q", "u", "i", "t">>, <<"e", "x", "i", "t">>, <<"q">>}

\* the comparison without .lower()
IsQuitCommandCaseSensitive(user_input) == user_input \in QuitCommands

\* user_input.lower() in ['quit', 'exit', 'q']
IsQuitCommand(user_input) == Lower(user_input) \in QuitCommands

\* the lines the user may type
RawInputs ==
    { <<"q">>, <<" ", "Q", "u", "i", "T", "\n">>, <<"E", "X", "I", "T">>,
      <<>>, <<" ", "\t">>,
      <<" ", "H", "i", " ">> }

(***************************************************************************)
(* Messages.  The content of a message is a Python value of one of four    *)
(* kinds, named by ctype, and kept in the field of that kind: "input", a   *)
(* str the user typed (chars, a character sequence); "text", a str from    *)
(* the LLM or built by the driver (text); "blocks", a list of content      *)
(* blocks, and "results", a list of tool_result dicts (items).             *)
(***************************************************************************)
Msg(role, ctype, text, chars, items) ==
    [role |-> role, ctype |-> ctype, text |-> text, chars |-> chars, items |-> items]

TextMsg(role, text) == Msg(role, "text", text, <<>>, <<>>)

\* messages.append({"role": "user", "content": user_query})
UserMsg(user_query) == Msg("user", "input", "", user_query, <<>>)

\* messages.append({"role": "assistant", "content": response})
AnswerMsg(text) == TextMsg("assistant", text)

(***************************************************************************)
(* Variant A: the tool registry and its rendering for the system prompt.   *)
(* A tool is a record; optional keys are optional fields.  The properties  *)
(* dict is a sequence of <<name, info>> pairs in insertion order.  The     *)
(* rendered text is the sequence of its lines.                             *)
(***************************************************************************)
ToolListTables ==
    [name |-> "list_tables", description |-> "List tables"]

ToolQuery ==
    [name |-> "query_database",
     inputSchema |->
        [properties |->
            << <<"query", [type |-> "string", description |-> "SQL"]>>,
               <<"limit", [description |-> "max rows"]>> >>]]

\* a tool whose input schema has no properties key
ToolPing ==
    [name |-> "ping", description |-> "Check the server", inputSchema |-> [type |-> "object"]]

\* a tool whose input schema has an empty properties dict
ToolStats ==
    [name |-> "get_stats", description |-> "Server statistics",
     inputSchema |-> [type |-> "object", properties |-> <<>>]]

\* a tool with a description and two parameters
ToolDescribe ==
    [name |-> "describe_table", description |-> "Describe a table",
     inputSchema |->
        [type |-> "object",
         properties |->
            << <<"table", [type |-> "string", description |-> "Table name"]>>,
               <<"schema", [type |-> "string"]>> >>]]

\* the tools a registry may hold
ToolKinds == {ToolListTables, ToolQuery, ToolPing, ToolStats, ToolDescribe}

\* the tool lists a tools/list result may carry
RegistryLists == { <<>>, <<ToolListTables, ToolQuery>> }

\* "\n".join(parts), with sep for "\n"
RECURSIVE Join(_, _)
Join(parts, sep) ==
    IF parts = <<>> THEN ""
    ELSE IF Len(parts) = 1 THEN parts[1]
    ELSE parts[1] \o sep \o Join(Tail(parts), sep)

\* f"{param_name} ({param_type}): {param_desc}"
ParamLine(p) ==
    LET info == p[2]
        param_type == IF "type" \in DOMAIN info THEN info.type ELSE "unknown"
        param_desc == IF "description" \in DOMAIN info THEN info.description ELSE ""
    IN  p[1] \o " (" \o param_type \o "): " \o param_desc

\* the params list of one tool
ToolParams(tool) ==
    IF "inputSchema" \in DOMAIN tool /\ "properties" \in DOMAIN tool.inputSchema
    THEN [i \in 1..Len(tool.inputSchema.properties) |->
             ParamLine(tool.inputSchema.properties[i])]
    ELSE <<>>

\* tool_desc without the `if params:` test
ToolDescNoParamsTest(tool) ==
    LET first == "- " \o tool.name \o ": " \o
                 (IF "description" \in DOMAIN tool THEN tool.description
                  ELSE "No description")
    IN  IF "inputSchema" \in DOMAIN tool /\ "properties" \in DOMAIN tool.inputSchema
        THEN first \o "\n  Parameters:\n    " \o Join(ToolParams(tool), "\n    ")
        ELSE first

\* tool_desc of one tool
ToolDesc(tool) ==
    LET first == "- " \o tool.name \o ": " \o
                 (IF "description" \in DOMAIN tool THEN tool.description
                  ELSE "No description")
        params == ToolParams(tool)
    IN  IF params # <<>>
        THEN first \o "\n  Parameters:\n    " \o Join(params, "\n    ")
        ELSE first

\* the list tool_descriptions
ToolDescriptions(ts) == [i \in 1..Len(ts) |-> ToolDesc(ts[i])]

format_tools_for_ollama(ts) == Join(ToolDescriptions(ts), "\n")

\* the text of system_message before {tools_context}
Preamble == "You are a helpful PostgreSQL database assistant. You have access to the following tools:\n\n"

\* the text of system_message after {tools_context}
Instructions ==
    "\n"
    \o "\n"
    \o "IMPORTANT INSTRUCTIONS:\n"
    \o "1. When you need to use a tool, respond with ONLY a JSON object - no other text before or after:\n"
    \o "{\n"
    \o "    \"tool\": \"tool_name\",\n"
    \o "    \"arguments\": {\n"
    \o "        \"param1\": \"value1\",\n"
    \o "        \"param2\": \"value2\"\n"
    \o "    }\n"
    \o "}\n"
    \o "\n"
    \o "2. After calling a tool, you will receive actual results from the database.\n"
    \o "3. You MUST base your response ONLY on the actual tool results provided - never make up or guess data.\n"
    \o "4. If you receive tool results, format them clearly for the user.\n"
    \o "5. Only use tools when necessary to answer the user's question."

\* {"role": "system", "content": system_message}
SystemMsg(ts) == TextMsg("system", Preamble \o format_tools_for_ollama(ts) \o Instructions)

(***************************************************************************)
(* Variant A: the replies the local model may give, and json.loads on      *)
(* them.  A parsed value is a record carrying its Python type.             *)
(***************************************************************************)
ReplyPlain == "There are two tables: users and orders."
ReplyProse == "Let me check: {\"tool\": \"list_tables\", \"arguments\": {}}"
ReplyTool == "{\"tool\": \"list_tables\", \"arguments\": {}}\n"
ReplyObject == "{\"answer\": 42}"
ReplyListTool == "[\"tool\"]"
ReplyList == "[1, 2]"
ReplyStrTool == "\"a tool\""
ReplyStr == "\"done\""
ReplyNumber == "42"
ReplyBool == "true"
ReplyNull == "null"

RepliesA ==
    { ReplyPlain, ReplyProse, ReplyTool, ReplyObject, ReplyListTool, ReplyList,
      ReplyStrTool, ReplyStr, ReplyNumber, ReplyBool, ReplyNull }

\* assistant_message.strip()
StripReply(text) ==
    IF text = ReplyTool THEN "{\"tool\": \"list_tables\", \"arguments\": {}}" ELSE text

\* json.loads: ok = FALSE is json.JSONDecodeError
JsonLoads(text) ==
    CASE text = "{\"tool\": \"list_tables\", \"arguments\": {}}" ->
            [ok |-> TRUE, value |-> [type |-> "dict", keys |-> {"tool", "arguments"}]]
      [] text = ReplyObject ->
            [ok |-> TRUE, value |-> [type |-> "dict", keys |-> {"answer"}]]
      [] text = ReplyListTool ->
            [ok |-> TRUE, value |-> [type |-> "list", items |-> {"tool"}]]
      [] text = ReplyList ->
            [ok |-> TRUE, value |-> [type |-> "list", items |-> {"1", "2"}]]
      [] text = ReplyStrTool ->
            [ok |-> TRUE, value |-> [type |-> "str", chars |-> <<"a", " ", "t", "o", "o", "l">>]]
      [] text = ReplyStr ->
            [ok |-> TRUE, value |-> [type |-> "str", chars |-> <<"d", "o", "n", "e">>]]
      [] text = ReplyNumber -> [ok |-> TRUE, value |-> [type |-> "int"]]
      [] text = ReplyBool -> [ok |-> TRUE, value |-> [type |-> "bool"]]
      [] text = ReplyNull -> [ok |-> TRUE, value |-> [type |-> "NoneType"]]
      [] OTHER -> [ok |-> FALSE]

IsSubstring(needle, chars) ==
    \E i \in 1..(Len(chars) - Len(needle) + 1) :
        SubSeq(chars, i, i + Len(needle) - 1) = needle

\* 'tool' in tool_call: "True", "False" or "TypeError"
InToolCall(v) ==
    CASE v.type = "dict" -> IF "tool" \in v.keys THEN "True" ELSE "False"
      [] v.type = "list" -> IF "tool" \in v.items THEN "True" ELSE "False"
      [] v.type = "str" ->
            IF IsSubstring(<<"t", "o", "o", "l">>, v.chars) THEN "True" ELSE "False"
      [] OTHER -> "TypeError"

\* tool_call['tool'] raises TypeError unless tool_call is a dict
SubscriptTool(v) == IF v.type = "dict" THEN "ok" ELSE "TypeError"

\* the try block without its except json.JSONDecodeError clause
InspectReplyNoHandler(assistant_message) ==
    LET parsed == JsonLoads(StripReply(assistant_message))
    IN  IF ~parsed.ok THEN "TypeError"
        ELSE IF InToolCall(parsed.value) = "True" /\ SubscriptTool(parsed.value) = "ok"
             THEN "tool"
             ELSE "final"

\* the try block of process_query: "tool" (execute the tool), "final" (fall
\* through to return assistant_message) or "TypeError" (raised out of the turn)
InspectReply(assistant_message) ==
    LET parsed == JsonLoads(StripReply(assistant_message))
    IN  IF ~parsed.ok THEN "final"
        ELSE LET has == InToolCall(parsed.value)
             IN  CASE has = "TypeError" -> "TypeError"
                   [] has = "False" -> "final"
                   [] has = "True" -> IF SubscriptTool(parsed.value) = "ok" THEN "tool"
                                      ELSE "TypeError"

(***************************************************************************)
(* Variant A: call_tool and the two messages of a tool round trip.         *)
(***************************************************************************)
\* what the tool server does with a tools/call request
ToolOutcomes == {"ok", "http_error", "jsonrpc_error"}

\* _jsonrpc_request: the result, or the text of the exception it raises
JsonRpcRequestResult(o) ==
    CASE o = "ok" -> [raised |-> FALSE, text |-> "{\"content\": \"users, orders\"}"]
      [] o = "http_error" -> [raised |-> TRUE, text |-> "HTTP error: timeout"]
      [] o = "jsonrpc_error" -> [raised |-> TRUE, text |-> "JSON-RPC error: no such tool"]

\* call_tool without its except clause
call_tool_uncaught(o) ==
    LET r == JsonRpcRequestResult(o)
    IN  IF r.raised
        THEN [raised |-> TRUE, value |-> [error |-> r.text, is_error |-> TRUE]]
        ELSE [raised |-> FALSE, value |-> [result |-> r.text]]

\* call_tool: the dict it returns (the server's result, or the error dict of the
\* except clause); raised = TRUE would be an exception leaving call_tool
call_tool(o) ==
    LET r == JsonRpcRequestResult(o)
    IN  IF r.raised
        THEN [raised |-> FALSE, value |-> [error |-> r.text, is_error |-> TRUE]]
        ELSE [raised |-> FALSE, value |-> [result |-> r.text]]

\* list_available_tools without its except clause
list_available_tools_uncaught(o, lst) ==
    [raised |-> JsonRpcRequestResult(o).raised, value |-> lst]

\* list_available_tools: result.get("tools", []), or [] from the except clause;
\* raised = TRUE would be an exception leaving it
list_available_tools(o, lst) ==
    IF JsonRpcRequestResult(o).raised
    THEN [raised |-> FALSE, value |-> <<>>]
    ELSE [raised |-> FALSE, value |-> lst]

\* if not tools:
NoTools(ts) == ts = <<>>

\* json.dumps(tool_result, indent=2)
JsonDumps(d) ==
    IF "error" \in DOMAIN d
    THEN "{\n  \"error\": \"" \o d.error \o "\",\n  \"is_error\": " \o
         (IF d.is_error THEN "true" ELSE "false") \o "\n}"
    ELSE d.result

\* messages.append({"role": "assistant", "content": assistant_message})
ToolCallMsgA(assistant_message) == TextMsg("assistant", assistant_message)

\* messages.append({"role": "user", "content": f"Tool result:\n{result_text}"})
ToolResultMsgA(tool_result) ==
    TextMsg("user", "Tool result:\n" \o JsonDumps(tool_result))

\* a tool round trip that appends the tool call alone
ToolRoundTripMsgsNoResult(assistant_message, tool_result) ==
    <<ToolCallMsgA(assistant_message)>>

\* the two appends of a tool round trip, in order
ToolRoundTripMsgs(assistant_message, tool_result) ==
    <<ToolCallMsgA(assistant_message), ToolResultMsgA(tool_result)>>

\* range(11)
LoopContinuesOnceMore(it) == it <= MaxIterations

\* for iteration in range(10): the loop body runs for this value of iteration
LoopContinues(it) == it < MaxIterations

\* an id that is returned without the increment
GetNextIdNoIncrement(id) == id

\* self.request_id += 1; return self.request_id
GetNextId(id) == id + 1

(***************************************************************************)
(* Requests.                                                               *)
(***************************************************************************)
Request(to, method, id, msgs) == [to |-> to, method |-> method, id |-> id, messages |-> msgs]

\* self.ollama.chat(model=..., messages=full_messages)
LLMRequestA(ts, msgs) == Request("llm", "chat", 0, <<SystemMsg(ts)>> \o msgs)

\* self.anthropic.messages.create(..., messages=messages, tools=available_tools)
LLMRequestB(msgs) == Request("llm", "messages.create", 0, msgs)

\* _jsonrpc_request(method): "id": self._get_next_id()
JsonRpcRequest(method, id) == Request("server", method, id, <<>>)

\* a request on the pipe session
SessionRequest(method) == Request("server", method, 0, <<>>)

(***************************************************************************)
(* Variant B: the responses of the hosted API.  A content block is a       *)
(* record; a text block has a text field (hasattr(content_block, "text")), *)
(* a tool_use block has id, name and input.                                *)
(***************************************************************************)
StopReasons == {"tool_use", "end_turn", "max_tokens"}

\* the block-type sequences a response content may have
ContentShapes ==
    { <<>>, <<"text">>, <<"tool_use">>, <<"text", "text">>, <<"text", "tool_use">>,
      <<"tool_use", "text">>, <<"tool_use", "tool_use">> }

NumToolUse(shape) == Cardinality({i \in 1..Len(shape) : shape[i] = "tool_use"})

\* the text the API puts in a text block at position i
TextAt(i) == IF i % 2 = 1 THEN "x" ELSE "y"

\* the content of a response of the given shape; the API numbers its tool_use
\* blocks with fresh ids, base + 1, base + 2, ...
ContentOf(shape, base) ==
    [i \in 1..Len(shape) |->
        IF shape[i] = "text"
        THEN [type |-> "text", text |-> TextAt(i)]
        ELSE [type |-> "tool_use",
              id |-> base + NumToolUse(SubSeq(shape, 1, i)),
              name |-> "list_tables",
              input |-> "{}"]]

\* what messages.create may return: any stop reason with any content, the code
\* reads the two independently; mayUseTools is whether the model may still
\* answer with stop reason tool_use in this turn
ResponsesB(mayUseTools, base) ==
    { [stop_reason |-> p[1], content |-> ContentOf(p[2], base)] :
        p \in { q \in StopReasons \X ContentShapes : q[1] = "tool_use" => mayUseTools } }

ToolUseCount(content) ==
    Cardinality({i \in 1..Len(content) : content[i].type = "tool_use"})

\* the tool_use ids that appear in a history: the API hands out ids that are
\* new to the conversation it is sent
RECURSIVE IdsInHistory(_)
IdsInHistory(msgs) ==
    IF msgs = <<>> THEN 0
    ELSE (IF Head(msgs).ctype = "blocks" THEN ToolUseCount(Head(msgs).items) ELSE 0)
         + IdsInHistory(Tail(msgs))

\* a test on the content blocks in place of the stop reason
WantsToolsByContent(resp) ==
    \E i \in 1..Len(resp.content) : resp.content[i].type = "tool_use"

\* a test that gives up on tools from the tenth LLM call of a turn on
WantsToolsUnderCap(resp) == resp.stop_reason = "tool_use" /\ llmCalls < MaxIterations

\* if response.stop_reason == "tool_use":
WantsTools(resp) == resp.stop_reason = "tool_use"

\* messages.append({"role": "assistant", "content": response.content})
AssistantBlocksMsg(content) == Msg("assistant", "blocks", "", <<>>, content)

\* messages.append({"role": "user", "content": tool_results})
ToolResultsMsgB(results) == Msg("user", "results", "", <<>>, results)

\* a loop that stops after the first tool_use block
NextToolUseFirstOnly(content, from) ==
    IF from = 1 /\ \E i \in 1..Len(content) : content[i].type = "tool_use"
    THEN CHOOSE i \in 1..Len(content) :
            /\ content[i].type = "tool_use"
            /\ \A j \in 1..(i - 1) : content[j].type # "tool_use"
    ELSE 0

\* for content_block in response.content: if content_block.type == "tool_use":
\* the position of the first tool_use block at or after from, 0 when there is none
NextToolUse(content, from) ==
    IF \E i \in from..Len(content) : content[i].type = "tool_use"
    THEN CHOOSE i \in from..Len(content) :
            /\ content[i].type = "tool_use"
            /\ \A j \in from..(i - 1) : content[j].type # "tool_use"
    ELSE 0

\* what the pipe session does with a call_tool request
SessionOutcomes == {"ok", "exception"}

\* the dict the try / except around session.call_tool appends to tool_results
ToolResultEntry(block, o) ==
    IF o = "ok"
    THEN [type |-> "tool_result", tool_use_id |-> block.id, content |-> "users, orders"]
    ELSE [type |-> "tool_result", tool_use_id |-> block.id,
          content |-> "Error: " \o "connection closed", is_error |-> TRUE]

\* tool_results.append(...) in either branch of the try
CollectResult(results, block, o) == Append(results, ToolResultEntry(block, o))

\* final_response: the text of the blocks that have one, concatenated in order
RECURSIVE FinalResponse(_)
FinalResponse(content) ==
    IF content = <<>> THEN ""
    ELSE (IF "text" \in DOMAIN Head(content) THEN Head(content).text ELSE "")
         \o FinalResponse(Tail(content))

(***************************************************************************)
(* Where control goes.                                                     *)
(***************************************************************************)
\* a handler that leaves the loop
AfterTurnExceptionBreaks == "cleanup"

\* chat_loop: except Exception as e: print(f"\nError: {e}"), then the while
\* loop goes round to input() again
AfterTurnException == "prompt"

\* an input() that is called outside the try block
AfterInputErrorEscapes == "cleanup"

\* chat_loop: input() is inside the try block, its exception goes to the same
\* except Exception clause
AfterInputError == AfterTurnException

\* a break that skips main's finally
AfterBreakSkipsFinally == "done"

\* chat_loop: break leaves the loop, chat_loop returns into main's finally
AfterBreak == "cleanup"

\* a configuration check whose return is missing
AfterConfigErrorGoesOn == "prompt"

\* main: an early return before PostgresChatbot() is constructed
AfterConfigError == "done"

\* the suspension points inside chat_loop's try block
InLoop == {"prompt", "turn_list", "llm", "tool"}

\* the suspension points at which a request is outstanding
Waiting == {"connect", "list", "turn_list", "llm", "tool"}

\* response before process_query has one
Idle == IF variant = "A" THEN "" ELSE NoResponse

Configs ==
    { c \in [url : BOOLEAN, path : BOOLEAN, key : BOOLEAN] :
        \/ c.path /\ c.key
        \/ c.url }

Init ==
    /\ variant \in {"A", "B"}
    /\ config \in Configs
    /\ variant = "A" => config.path /\ config.key
    /\ variant = "B" => config.url
    /\ pc = "main"
    /\ constructed = FALSE
    /\ messages = <<>>
    /\ tools = <<>>
    /\ request_id = 0
    /\ iteration = 0
    /\ response = Idle
    /\ blockIdx = 0
    /\ tool_results = <<>>
    /\ inflight = {}
    /\ exitBy = "none"
    /\ outcome = "none"
    /\ answer = ""
    /\ llmCalls = 0
    /\ toolCalls = 0
    /\ toolErrors = 0
    /\ toolFailed = FALSE
    /\ inputError = FALSE
    /\ cleanups = 0

(***************************************************************************)
(* main() up to the first request.                                         *)
(***************************************************************************)
MainStart ==
    /\ pc = "main"
    /\ IF variant = "A"
       THEN IF ~config.url
            THEN /\ exitBy' = "config_error"
                 /\ pc' = AfterConfigError
                 /\ UNCHANGED <<constructed, request_id, inflight>>
            ELSE \* chatbot = PostgresChatbot(); chat_loop(); list_available_tools()
                 /\ constructed' = TRUE
                 /\ request_id' = GetNextId(0)
                 /\ inflight' = {JsonRpcRequest("tools/list", request_id')}
                 /\ pc' = "list"
                 /\ UNCHANGED exitBy
       ELSE IF ~config.path \/ ~config.key
            THEN /\ exitBy' = "config_error"
                 /\ pc' = AfterConfigError
                 /\ UNCHANGED <<constructed, request_id, inflight>>
            ELSE \* chatbot = PostgresChatbot(); connect_to_server(server_path)
                 /\ constructed' = TRUE
                 /\ inflight' = {SessionRequest("initialize")}
                 /\ pc' = "connect"
                 /\ UNCHANGED <<request_id, exitBy>>
    /\ UNCHANGED <<inputError, variant, config, messages, tools, iteration, response, blockIdx,
                   tool_results, outcome, answer, llmCalls, toolCalls, toolErrors,
                   toolFailed, cleanups>>

\* A: the tools/list reply arrives in list_available_tools; chat_loop goes on
ListToolsReturnsA(o, lst) ==
    LET r == list_available_tools(o, lst)
    IN  /\ variant = "A" /\ pc = "list"
        /\ inflight' = {}
        /\ messages' = <<>>
        /\ IF r.raised
           THEN \* outside chat_loop's try: the exception reaches main's finally
                /\ exitBy' = "escape"
                /\ pc' = "cleanup"
                /\ UNCHANGED tools
           ELSE /\ tools' = r.value
                /\ IF NoTools(r.value)
                   THEN \* print the warning; return
                        /\ exitBy' = "empty_registry"
                        /\ pc' = "cleanup"
                   ELSE /\ exitBy' = exitBy
                        /\ pc' = "prompt"
        /\ UNCHANGED <<inputError, variant, config, constructed, request_id, iteration, response,
                       blockIdx, tool_results, outcome, answer, llmCalls, toolCalls,
                       toolErrors, toolFailed, cleanups>>

ListToolsDoneA == \E o \in ToolOutcomes, lst \in RegistryLists : ListToolsReturnsA(o, lst)

\* B: connect_to_server ends (transport up and handshake done, or an exception)
ConnectDoneB ==
    /\ variant = "B" /\ pc = "connect"
    /\ \E ok \in BOOLEAN :
         IF ok
         THEN /\ exitBy' = exitBy
              /\ pc' = "prompt"
         ELSE /\ exitBy' = "connect_failed"
              /\ pc' = "cleanup"
    /\ inflight' = {}
    /\ messages' = <<>>
    /\ UNCHANGED <<inputError, variant, config, constructed, tools, request_id, iteration, response,
                   blockIdx, tool_results, outcome, answer, llmCalls, toolCalls,
                   toolErrors, toolFailed, cleanups>>

(***************************************************************************)
(* The end of a turn: process_query returns or raises into chat_loop.      *)
(***************************************************************************)
\* process_query is left with history msgs; how is "answer" or "error"
EndTurn(msgs, how, value) ==
    /\ messages' = msgs
    /\ outcome' = how
    /\ answer' = value
    /\ response' = Idle
    /\ iteration' = 0
    /\ blockIdx' = 0
    /\ tool_results' = <<>>
    /\ inflight' = {}
    /\ pc' = IF how = "error" THEN AfterTurnException ELSE "prompt"
    /\ exitBy' = IF how = "error" /\ AfterTurnException # "prompt" THEN "exception"
                 ELSE exitBy

\* a chat_loop that prints the answer and does not append it
ReturnAnswerNoAppend(msgs, text) == EndTurn(msgs, "answer", text)

\* a chat_loop that keeps the answer alone as its history
ReturnAnswerAlone(msgs, text) == EndTurn(<<AnswerMsg(text)>>, "answer", text)

\* return text from process_query; chat_loop prints it and appends it
ReturnAnswer(msgs, text) == EndTurn(Append(msgs, AnswerMsg(text)), "answer", text)

\* a handler that removes what the failed turn appended
RaiseInTurnRollback(msgs) ==
    EndTurn(SubSeq(msgs, 1,
                   (CHOOSE i \in 1..Len(msgs) :
                       /\ msgs[i].ctype = "input"
                       /\ \A j \in (i + 1)..Len(msgs) : msgs[j].ctype # "input") - 1),
            "error", answer)

\* an exception leaves process_query; chat_loop's handler prints it
RaiseInTurn(msgs) == EndTurn(msgs, "error", answer)

(***************************************************************************)
(* chat_loop: one line of input.  A question starts process_query, which   *)
(* appends it and runs up to its first request.                            *)
(***************************************************************************)
\* limit: a question is read only while the history holds at most limit messages
ReadLineWithin(raw, limit) ==
    LET user_input == Strip(raw)
        msgs == Append(messages, UserMsg(user_input))
    IN  /\ pc = "prompt"
        /\ IF IsQuitCommand(user_input)
           THEN /\ exitBy' = "quit"
                /\ pc' = AfterBreak
                /\ UNCHANGED <<messages, inflight, outcome, answer, llmCalls, toolCalls,
                               toolFailed>>
           ELSE IF user_input = <<>>
           THEN /\ pc' = "prompt"
                /\ UNCHANGED <<messages, inflight, outcome, answer, llmCalls, toolCalls,
                               toolFailed, exitBy>>
           ELSE /\ Len(messages) <= limit
                /\ messages' = msgs
                /\ outcome' = "none"
                /\ answer' = ""
                /\ toolCalls' = 0
                /\ toolFailed' = FALSE
                /\ exitBy' = exitBy
                /\ IF variant = "A"
                   THEN /\ inflight' = {LLMRequestA(tools, msgs)}
                        /\ llmCalls' = 1
                        /\ pc' = "llm"
                   ELSE /\ inflight' = {SessionRequest("tools/list")}
                        /\ llmCalls' = 0
                        /\ pc' = "turn_list"
        /\ inputError' = FALSE
        /\ UNCHANGED <<variant, config, constructed, tools, request_id, iteration,
                       response, blockIdx, tool_results, toolErrors, cleanups>>

ReadLine(raw) == ReadLineWithin(raw, MaxPromptHistory)

ReadInput == \E raw \in RawInputs : ReadLine(raw)

\* input() raises (end of input): chat_loop's except Exception prints it
InputFails ==
    /\ pc = "prompt"
    /\ pc' = AfterInputError
    /\ exitBy' = IF AfterInputError # "prompt" THEN "exception" ELSE exitBy
    /\ inputError' = TRUE
    /\ UNCHANGED <<variant, config, constructed, messages, tools, request_id, iteration,
                   response, blockIdx, tool_results, inflight, outcome, answer,
                   llmCalls, toolCalls, toolErrors, toolFailed, cleanups>>

(***************************************************************************)
(* Variant A: process_query.                                               *)
(***************************************************************************)
\* the reply of ollama.chat arrives
HandleReplyA(reply) ==
    LET decision == InspectReply(reply)
    IN  /\ variant = "A" /\ pc = "llm"
        /\ CASE decision = "tool" ->
                   \* tool_result = await self.call_tool(tool_name, tool_args)
                   /\ response' = reply
                   /\ request_id' = GetNextId(request_id)
                   /\ inflight' = {JsonRpcRequest("tools/call", request_id')}
                   /\ toolCalls' = toolCalls + 1
                   /\ pc' = "tool"
                   /\ UNCHANGED <<messages, outcome, answer, iteration, blockIdx,
                                  tool_results, exitBy>>
             [] decision = "final" ->
                   \* return assistant_message
                   /\ ReturnAnswer(messages, reply)
                   /\ UNCHANGED <<request_id, toolCalls>>
             [] decision = "TypeError" ->
                   \* not a json.JSONDecodeError: it leaves process_query
                   /\ RaiseInTurn(messages)
                   /\ UNCHANGED <<request_id, toolCalls>>
        /\ UNCHANGED <<inputError, variant, config, constructed, tools, llmCalls, toolErrors,
                       toolFailed, cleanups>>

LLMReplyA == \E reply \in RepliesA : HandleReplyA(reply)

\* the tools/call reply arrives in call_tool; the loop body finishes
ToolReturnsA(o) ==
    LET r == call_tool(o)
        msgs == messages \o ToolRoundTripMsgs(response, r.value)
    IN  /\ variant = "A" /\ pc = "tool"
        /\ o # "ok" => toolErrors < MaxToolErrors
        /\ toolErrors' = IF o = "ok" THEN toolErrors ELSE toolErrors + 1
        /\ toolFailed' = (o # "ok")
        /\ IF r.raised
           THEN /\ RaiseInTurn(messages)
                /\ UNCHANGED llmCalls
           ELSE IF LoopContinues(iteration + 1)
           THEN \* continue: the next iteration calls the LLM again
                /\ messages' = msgs
                /\ iteration' = iteration + 1
                /\ inflight' = {LLMRequestA(tools, msgs)}
                /\ llmCalls' = llmCalls + 1
                /\ pc' = "llm"
                /\ UNCHANGED <<response, outcome, answer, blockIdx, tool_results, exitBy>>
           ELSE \* the for loop is exhausted: return the apology
                /\ ReturnAnswer(msgs, Apology)
                /\ UNCHANGED llmCalls
        /\ UNCHANGED <<inputError, variant, config, constructed, tools, request_id, toolCalls,
                       cleanups>>

ToolDoneA == \E o \in ToolOutcomes : ToolReturnsA(o)

\* either variant: the LLM call raises
LLMFails ==
    /\ pc = "llm"
    /\ RaiseInTurn(messages)
    /\ UNCHANGED <<inputError, variant, config, constructed, tools, request_id, llmCalls, toolCalls,
                   toolErrors, toolFailed, cleanups>>

(***************************************************************************)
(* Variant B: process_query.                                               *)
(***************************************************************************)
\* the per-turn session.list_tools() ends; on success the LLM is called
TurnListDoneB ==
    /\ variant = "B" /\ pc = "turn_list"
    /\ \E ok \in BOOLEAN :
         IF ok
         THEN /\ inflight' = {LLMRequestB(messages)}
              /\ llmCalls' = llmCalls + 1
              /\ pc' = "llm"
              /\ UNCHANGED <<messages, outcome, answer, response, iteration, blockIdx,
                             tool_results, exitBy>>
         ELSE /\ RaiseInTurn(messages)
              /\ UNCHANGED llmCalls
    /\ UNCHANGED <<inputError, variant, config, constructed, tools, request_id, toolCalls,
                   toolErrors, toolFailed, cleanups>>

\* B: the tool_use branch from content block number from on: the call for the
\* next tool_use block, or the append of tool_results and the next LLM call
AfterBlock(msgs, content, from, results) ==
    LET nxt == NextToolUse(content, from)
    IN  IF nxt # 0
        THEN /\ messages' = msgs
             /\ tool_results' = results
             /\ blockIdx' = nxt
             /\ inflight' = {SessionRequest("tools/call")}
             /\ toolCalls' = toolCalls + 1
             /\ pc' = "tool"
             /\ UNCHANGED llmCalls
        ELSE /\ messages' = Append(msgs, ToolResultsMsgB(results))
             /\ tool_results' = results
             /\ blockIdx' = 0
             /\ inflight' = {LLMRequestB(messages')}
             /\ llmCalls' = llmCalls + 1
             /\ pc' = "llm"
             /\ UNCHANGED toolCalls

\* the response of messages.create arrives
HandleResponseB(resp) ==
    /\ variant = "B" /\ pc = "llm"
    /\ IF WantsTools(resp)
       THEN /\ response' = resp
            /\ AfterBlock(Append(messages, AssistantBlocksMsg(resp.content)),
                          resp.content, 1, <<>>)
            /\ UNCHANGED <<outcome, answer, iteration, exitBy>>
       ELSE \* Claude has finished: return final_response
            /\ ReturnAnswer(messages, FinalResponse(resp.content))
            /\ UNCHANGED <<llmCalls, toolCalls>>
    /\ UNCHANGED <<inputError, variant, config, constructed, tools, request_id, toolErrors,
                   toolFailed, cleanups>>

LLMReplyB ==
    \E resp \in ResponsesB(llmCalls <= MaxRoundsB, IdsInHistory(messages)) :
        HandleResponseB(resp)

\* session.call_tool for block blockIdx ends: its result, or the exception the
\* except clause turns into a result
ToolReturnsB(o) ==
    /\ variant = "B" /\ pc = "tool"
    /\ o # "ok" => toolErrors < MaxToolErrors
    /\ toolErrors' = IF o = "ok" THEN toolErrors ELSE toolErrors + 1
    /\ toolFailed' = (o # "ok")
    /\ AfterBlock(messages, response.content, blockIdx + 1,
                  CollectResult(tool_results, response.content[blockIdx], o))
    /\ UNCHANGED <<inputError, variant, config, constructed, tools, request_id, iteration, response,
                   outcome, answer, exitBy, cleanups>>

ToolDoneB == \E o \in SessionOutcomes : ToolReturnsB(o)

(***************************************************************************)
(* The ways out.                                                           *)
(***************************************************************************)
\* Ctrl-C: caught by chat_loop's except KeyboardInterrupt (goodbye, break), or
\* raised through every frame as a BaseException; main's finally runs either
\* way, and process_query's frame is gone
Interrupt ==
    /\ pc \in InLoop \cup Waiting
    /\ \E caught \in BOOLEAN :
         /\ caught => pc \in InLoop
         /\ exitBy' = IF caught THEN "interrupt" ELSE "escape"
    /\ inflight' = {}
    /\ response' = Idle
    /\ iteration' = 0
    /\ blockIdx' = 0
    /\ tool_results' = <<>>
    /\ pc' = "cleanup"
    /\ UNCHANGED <<inputError, variant, config, constructed, messages, tools, request_id, outcome,
                   answer, llmCalls, toolCalls, toolErrors, toolFailed, cleanups>>

\* finally: await chatbot.cleanup()
Cleanup ==
    /\ pc = "cleanup"
    /\ cleanups' = cleanups + 1
    /\ pc' = "done"
    /\ UNCHANGED <<inputError, variant, config, constructed, messages, tools, request_id, iteration,
                   response, blockIdx, tool_results, inflight, exitBy, outcome, answer,
                   llmCalls, toolCalls, toolErrors, toolFailed>>

Next ==
    \/ MainStart
    \/ ListToolsDoneA
    \/ ConnectDoneB
    \/ ReadInput
    \/ InputFails
    \/ LLMReplyA
    \/ ToolDoneA
    \/ LLMFails
    \/ TurnListDoneB
    \/ LLMReplyB
    \/ ToolDoneB
    \/ Interrupt
    \/ Cleanup

Spec == Init /\ [][Next]_vars

(***************************************************************************)
(* The first question of a session of variant A, for every registry of up  *)
(* to MaxTools tools: chat_loop holds the tools it fetched, and            *)
(* process_query renders them into the system message of its LLM call.     *)
(***************************************************************************)
\* the non-empty tool lists of up to MaxTools tools
ToolLists == UNION { [1..n -> ToolKinds] : n \in 1..MaxTools }

InitFormat ==
    /\ variant = "A"
    /\ config = [url |-> TRUE, path |-> TRUE, key |-> TRUE]
    /\ pc = "prompt"
    /\ constructed = TRUE
    /\ messages = <<>>
    /\ tools \in ToolLists
    /\ request_id = 1
    /\ iteration = 0
    /\ response = Idle
    /\ blockIdx = 0
    /\ tool_results = <<>>
    /\ inflight = {}
    /\ exitBy = "none"
    /\ outcome = "none"
    /\ answer = ""
    /\ llmCalls = 0
    /\ toolCalls = 0
    /\ toolErrors = 0
    /\ toolFailed = FALSE
    /\ inputError = FALSE
    /\ cleanups = 0

\* the question that starts the first turn
FirstQuestion == messages = <<>> /\ ReadInput

NextFormat ==
    \/ FirstQuestion
    \/ LLMFails

SpecFormat == InitFormat /\ [][NextFormat]_vars

(***************************************************************************)
(* One long turn of variant B: the first question of a session, answered   *)
(* by the LLM with one tool_use block per response for up to               *)
(* MaxLongRoundsB responses, or with a text.                               *)
(***************************************************************************)
InitLongB ==
    /\ variant = "B"
    /\ config = [url |-> TRUE, path |-> TRUE, key |-> TRUE]
    /\ pc = "prompt"
    /\ constructed = TRUE
    /\ messages = <<>>
    /\ tools = <<>>
    /\ request_id = 0
    /\ iteration = 0
    /\ response = Idle
    /\ blockIdx = 0
    /\ tool_results = <<>>
    /\ inflight = {}
    /\ exitBy = "none"
    /\ outcome = "none"
    /\ answer = ""
    /\ llmCalls = 0
    /\ toolCalls = 0
    /\ toolErrors = 0
    /\ toolFailed = FALSE
    /\ inputError = FALSE
    /\ cleanups = 0

\* a response with one block: a tool_use block, or a text block
OneBlockResponses(mayUseTools, base) ==
    { resp \in ResponsesB(mayUseTools, base) :
        \/ resp.stop_reason = "tool_use" /\ ToolUseCount(resp.content) = 1 /\ Len(resp.content) = 1
        \/ resp.stop_reason = "end_turn" /\ ToolUseCount(resp.content) = 0 /\ Len(resp.content) = 1 }

LLMReplyLongB ==
    \E resp \in OneBlockResponses(llmCalls <= MaxLongRoundsB, IdsInHistory(messages)) :
        HandleResponseB(resp)

NextLongB ==
    \/ FirstQuestion
    \/ TurnListDoneB
    \/ LLMReplyLongB
    \/ ToolDoneB
    \/ LLMFails

SpecLongB == InitLongB /\ [][NextLongB]_vars

(***************************************************************************)
(* Sessions in which a question follows only a failed turn: the first      *)
(* question, and after each turn that ended with an exception the next     *)
(* one, while the history holds at most MaxRetryHistory messages.          *)
(***************************************************************************)
RetryInput ==
    \E raw \in RawInputs :
        ReadLineWithin(raw, IF messages = <<>> \/ outcome = "error"
                            THEN MaxRetryHistory ELSE -1)

NextRetry ==
    \/ MainStart
    \/ ListToolsDoneA
    \/ ConnectDoneB
    \/ RetryInput
    \/ LLMReplyA
    \/ ToolDoneA
    \/ LLMFails
    \/ TurnListDoneB
    \/ LLMReplyB
    \/ ToolDoneB

SpecRetry == Init /\ [][NextRetry]_vars

(***************************************************************************)
(* Properties.                                                             *)
(***************************************************************************)
\* the messages of the LLM requests that are outstanding
LLMCallHistories == { r.messages : r \in { q \in inflight : q.to = "llm" } }

\* an assistant message that invokes tools: A, a text the driver's convention
\* reads as a tool call; B, the content blocks of a tool_use response
IsToolInvocation(m) ==
    /\ m.role = "assistant"
    /\ \/ m.ctype = "blocks"
       \/ m.ctype = "text" /\ m.text = ReplyTool

\* the result texts variant A can put after "Tool result:"
ResultTextsA ==
    { "Tool result:\n" \o JsonDumps(d) :
        d \in { [result |-> "{\"content\": \"users, orders\"}"],
                [error |-> "HTTP error: timeout", is_error |-> TRUE],
                [error |-> "JSON-RPC error: no such tool", is_error |-> TRUE] } }

IsToolResult(m) ==
    /\ m.role = "user"
    /\ \/ m.ctype = "results"
       \/ m.ctype = "text" /\ m.text \in ResultTextsA

\* the ids of the tool_use blocks of a content, in block order
RECURSIVE ToolUseIds(_)
ToolUseIds(content) ==
    IF content = <<>> THEN <<>>
    ELSE (IF Head(content).type = "tool_use" THEN <<Head(content).id>> ELSE <<>>)
         \o ToolUseIds(Tail(content))

\* m answers the tool invocation inv
IsResultFor(inv, m) ==
    /\ IsToolResult(m)
    /\ inv.ctype = "blocks" =>
          /\ m.ctype = "results"
          /\ Len(m.items) = Len(ToolUseIds(inv.items))
          /\ \A k \in 1..Len(m.items) :
                /\ m.items[k].type = "tool_result"
                /\ m.items[k].tool_use_id = ToolUseIds(inv.items)[k]
    /\ inv.ctype = "text" => m.ctype = "text"

\* every tool invocation is directly followed by its one result message
Paired(msgs) ==
    \A i \in 1..Len(msgs) :
        IsToolInvocation(msgs[i]) =>
            /\ i < Len(msgs)
            /\ IsResultFor(msgs[i], msgs[i + 1])
            /\ i + 2 <= Len(msgs) => ~IsToolResult(msgs[i + 2])

\* C1: whenever an LLM call is outstanding, every assistant tool-invocation
\* message of the history it was sent is directly followed by exactly one
\* tool-result user message that answers it (B: one tool_result entry per
\* tool_use block, in block order, each with that block's id)
C1_ToolCallsAnswered == \A h \in LLMCallHistories : Paired(h)

\* an LLM call is outstanding whose history holds a tool invocation
C1_Witness ==
    \E h \in LLMCallHistories : \E i \in 1..Len(h) : IsToolInvocation(h[i])

\* C2: a turn of variant A never issues more than 10 LLM calls, and once the
\* tenth tool round trip of a turn is over the turn has returned the apology
\* after exactly 10 LLM calls, with no request outstanding
C2_IterationCap ==
    variant = "A" =>
        /\ llmCalls <= 10
        /\ (toolCalls = 10 /\ pc # "tool" /\ exitBy = "none") =>
              /\ pc = "prompt"
              /\ outcome = "answer"
              /\ answer = Apology
              /\ llmCalls = 10
              /\ inflight = {}
              /\ messages[Len(messages)] = AnswerMsg(Apology)

\* a turn of variant A has ended with the apology
C2_Witness ==
    /\ variant = "A" /\ pc = "prompt"
    /\ toolCalls = 10 /\ llmCalls = 10 /\ answer = Apology

\* C3: in variant B, when the LLM is called again after a tool_use response,
\* the history sent ends with that response's content as one assistant message
\* followed by one tool-result user message that holds at least one entry
C3_ToolUseAnswered ==
    variant = "B" =>
        \A h \in LLMCallHistories :
            llmCalls > 1 =>
                /\ Len(h) >= 3
                /\ h[Len(h) - 1] = AssistantBlocksMsg(response.content)
                /\ h[Len(h)].role = "user"
                /\ h[Len(h)].ctype = "results"
                /\ Len(h[Len(h)].items) >= 1
                /\ \/ Len(h) = 3
                   \/ h[Len(h) - 2].ctype # "blocks"

\* every response the API may give in the current state
AnyResponseB == ResponsesB(TRUE, IdsInHistory(messages))

\* C4: in variant B, a response whose stop reason is not tool_use ends the turn
\* in the step that handles it, whatever its content: no tool call and no LLM
\* call is issued, and its text is returned
C4_TerminalStopsTurn ==
    [][\A resp \in AnyResponseB :
          (resp.stop_reason # "tool_use" /\ HandleResponseB(resp)) =>
              /\ pc' = "prompt"
              /\ inflight' = {}
              /\ toolCalls' = toolCalls
              /\ llmCalls' = llmCalls
              /\ outcome' = "answer"]_vars

\* a turn of variant B has ended on a terminal response whose first block is a
\* tool_use block: the answer is the text of a second block alone
C4_Witness == variant = "B" /\ pc = "prompt" /\ outcome = "answer" /\ answer = "y"

\* the outcomes of a tools/call request of variant A that are failures
FailuresA == ToolOutcomes \ {"ok"}

\* A: the step that takes the failure o of a tool call appends the tool call
\* and the error dict, flagged, as the tool result, and goes on as after any
\* tool result: the next LLM call on the grown history, or, when this was the
\* last iteration of the loop, the return of the apology
FailureBecomesResultA(o) ==
    LET n == Len(messages)
        err == [error |-> JsonRpcRequestResult(o).text, is_error |-> TRUE]
    IN  /\ outcome' # "error"
        /\ exitBy' = "none"
        /\ Len(messages') >= n + 2
        /\ SubSeq(messages', 1, n) = messages
        /\ messages'[n + 1] = TextMsg("assistant", response)
        /\ messages'[n + 2] = TextMsg("user", "Tool result:\n" \o JsonDumps(err))
        /\ IF iteration + 1 < MaxIterations
           THEN /\ pc' = "llm"
                /\ Len(messages') = n + 2
                /\ inflight' = {LLMRequestA(tools, messages')}
                /\ llmCalls' = llmCalls + 1
           ELSE /\ pc' = "prompt"
                /\ outcome' = "answer"
                /\ answer' = Apology

\* B: the step that takes the exception of a tool call collects a flagged
\* tool_result with the block's id and the error text, and goes on to the next
\* tool_use block of the response or, after the last one, appends the collected
\* results as one user message and calls the LLM on the grown history
FailureBecomesResultB ==
    LET k == Len(tool_results) + 1
        more == \E i \in (blockIdx + 1)..Len(response.content) :
                    response.content[i].type = "tool_use"
    IN  /\ outcome' # "error"
        /\ exitBy' = "none"
        /\ Len(tool_results') = k
        /\ SubSeq(tool_results', 1, k - 1) = tool_results
        /\ tool_results'[k].type = "tool_result"
        /\ tool_results'[k].tool_use_id = response.content[blockIdx].id
        /\ "is_error" \in DOMAIN tool_results'[k]
        /\ tool_results'[k].is_error = TRUE
        /\ tool_results'[k].content = "Error: connection closed"
        /\ IF more
           THEN /\ pc' = "tool"
                /\ messages' = messages
           ELSE /\ pc' = "llm"
                /\ messages' = Append(messages, ToolResultsMsgB(tool_results'))
                /\ inflight' = {LLMRequestB(messages')}
                /\ llmCalls' = llmCalls + 1

JsonReplies == { reply \in RepliesA : JsonLoads(StripReply(reply)).ok }

\* the parsed value is an object with a tool key
HasToolKey(v) == v.type = "dict" /\ "tool" \in v.keys

\* the replies that are JSON without a tool key: an object, two arrays, two
\* strings, a number, a boolean and null
JsonWithoutToolKey ==
    { reply \in JsonReplies : ~HasToolKey(JsonLoads(StripReply(reply)).value) }

\* the step that takes reply ends the turn with reply as the answer and no call
IsFinalAnswer(reply) ==
    /\ pc' = "prompt"
    /\ outcome' = "answer"
    /\ answer' = reply
    /\ inflight' = {}
    /\ toolCalls' = toolCalls
    /\ request_id' = request_id
    /\ messages' = Append(messages, AnswerMsg(reply))

\* C6: in variant A, a reply that is JSON of any shape without a tool key is
\* the final answer of the turn: no tool is executed, the reply is returned and
\* the turn ends normally
C6_JsonWithoutToolIsFinal ==
    [][\A reply \in JsonWithoutToolKey : HandleReplyA(reply) => IsFinalAnswer(reply)]_vars

\* the replies that json.loads rejects
NonJsonReplies == RepliesA \ JsonReplies

\* C7: in variant A, a reply that is not JSON, a tool-call object inside prose
\* included, is returned verbatim as the final answer: no tool call is made,
\* and the one message the step adds to the history is the answer chat_loop
\* appends
C7_NonJsonIsFinal ==
    /\ ReplyProse \in NonJsonReplies
    /\ [][\A reply \in NonJsonReplies : HandleReplyA(reply) => IsFinalAnswer(reply)]_vars

\* a turn has ended with the tool-call object in prose as its answer
C7_Witness ==
    /\ variant = "A" /\ pc = "prompt" /\ outcome = "answer"
    /\ answer = ReplyProse
    /\ messages[Len(messages)] = AnswerMsg(ReplyProse)

\* lines that are a quit command once trimmed and lower-cased
QuitLines == { <<"q">>, <<" ", "Q", "u", "i", "T", "\n">>, <<"E", "X", "I", "T">> }

\* lines that are empty once trimmed
BlankLines == { <<>>, <<" ", "\t">> }

\* no request is sent and the history stays as it is
NoCallNoAppend ==
    /\ inflight' = {}
    /\ messages' = messages
    /\ llmCalls' = llmCalls
    /\ toolCalls' = toolCalls
    /\ request_id' = request_id

\* C8: in both variants a quit line ends the loop with no request sent and the
\* history unchanged, and no request is outstanding from then on; a blank line
\* sends no request, leaves the history unchanged and leaves the loop at the
\* prompt
C8_QuitAndBlankInput ==
    /\ QuitLines \cup BlankLines \subseteq RawInputs
    /\ [][\A raw \in RawInputs : ReadLine(raw) =>
             /\ raw \in QuitLines =>
                   /\ exitBy' = "quit"
                   /\ pc' \notin InLoop
                   /\ NoCallNoAppend
             /\ raw \in BlankLines =>
                   /\ exitBy' = exitBy
                   /\ pc' = "prompt"
                   /\ NoCallNoAppend]_vars
    /\ [](exitBy = "quit" => inflight = {} /\ pc \notin InLoop \cup Waiting)

\* the session has ended on a quit line after at least one question
C8_Witness == exitBy = "quit" /\ pc = "done" /\ messages # <<>>

\* the suspension points inside process_query
InTurn == {"turn_list", "llm", "tool"}

\* C9: an exception raised during a turn leaves the loop at the prompt with no
\* request outstanding and the session not ended, and no session ever ends
\* because of an exception of a turn
C9_TurnFailureKeepsSession ==
    /\ [][(pc \in InTurn /\ outcome' = "error") =>
             /\ pc' = "prompt"
             /\ exitBy' = "none"
             /\ inflight' = {}
             /\ cleanups' = 0]_vars
    /\ [](exitBy # "exception")
    /\ [](outcome = "error" /\ exitBy = "none" => pc \in InLoop)

\* a turn has been answered after an earlier turn failed: the question of the
\* failed turn is in the history with no answer after it
C9_Witness ==
    /\ pc = "prompt" /\ outcome = "answer"
    /\ \E i \in 1..(Len(messages) - 1) :
          messages[i].ctype = "input" /\ messages[i + 1].ctype = "input"

\* the ways a session ends after the client resources were acquired
ExitsAfterAcquire ==
    {"quit", "interrupt", "escape", "empty_registry", "connect_failed"}

\* C10: cleanup never runs twice, it has not run while the session is going,
\* and when the process has finished it has run exactly once if the chatbot
\* was constructed, whichever way the session ended
C10_CleanupExactlyOnce ==
    /\ cleanups <= 1
    /\ pc # "done" => cleanups = 0
    /\ pc = "done" => cleanups = (IF constructed THEN 1 ELSE 0)
    /\ pc = "done" /\ constructed => exitBy \in ExitsAfterAcquire
    /\ pc = "done" /\ ~constructed => exitBy = "config_error"

\* the process has finished after a quit command, and cleanup has run
C10_Witness == pc = "done" /\ exitBy = "quit" /\ cleanups = 1 /\ messages = <<>>

\* a required configuration value is missing: A, the server URL variable; B,
\* the server binary or the API key variable
ConfigMissing ==
    \/ variant = "A" /\ ~config.url
    \/ variant = "B" /\ (~config.path \/ ~config.key)

\* C11: when a required configuration value is missing, the chatbot is never
\* constructed, no request of any kind is ever sent, no LLM call is made and
\* no input is read: the process is before its check or has returned from it
C11_MissingConfigStopsEarly ==
    ConfigMissing =>
        /\ pc \in {"main", "done"}
        /\ pc = "done" => exitBy = "config_error"
        /\ ~constructed
        /\ inflight = {}
        /\ request_id = 0
        /\ llmCalls = 0 /\ toolCalls = 0
        /\ messages = <<>>
        /\ cleanups = 0

\* variant B has returned because the API key variable is unset, the server
\* binary being there
C11_Witness ==
    /\ variant = "B" /\ config.path /\ ~config.key
    /\ pc = "done" /\ exitBy = "config_error"

\* C12: in variant A, when the tools/list request fails or its result holds no
\* tool, list_available_tools returns the empty list without raising and
\* chat_loop returns at once: no input is read, and no LLM call and no tool
\* call is ever made without tools
C12_EmptyRegistryAborts ==
    /\ [][\A o \in ToolOutcomes, lst \in RegistryLists :
             ((o # "ok" \/ lst = <<>>) /\ ListToolsReturnsA(o, lst)) =>
                 /\ tools' = <<>>
                 /\ exitBy' = "empty_registry"
                 /\ pc' \notin InLoop
                 /\ inflight' = {}]_vars
    /\ [](exitBy = "empty_registry" =>
             /\ pc \in {"cleanup", "done"}
             /\ inflight = {}
             /\ llmCalls = 0 /\ toolCalls = 0
             /\ messages = <<>>
             /\ request_id = 1)
    /\ [](variant = "A" /\ (pc \in InLoop \/ llmCalls > 0 \/ toolCalls > 0) => tools # <<>>)

\* the session has been aborted on an empty registry and has finished
C12_Witness == variant = "A" /\ exitBy = "empty_registry" /\ pc = "done" /\ tools = <<>>

\* the JSON-RPC requests that are outstanding
RpcRequests == { r \in inflight : r.to = "server" /\ r.method \in {"tools/list", "tools/call"} }

\* the tool calls of variant A that the history records as answered
RECURSIVE NumToolResultsA(_)
NumToolResultsA(msgs) ==
    IF msgs = <<>> THEN 0
    ELSE (IF IsToolResult(Head(msgs)) THEN 1 ELSE 0) + NumToolResultsA(Tail(msgs))

\* the JSON-RPC requests variant A has issued while the session is going: the
\* tools/list request, the tool calls answered so far and the one outstanding
RequestsIssuedA ==
    (IF pc = "main" THEN 0 ELSE 1) + NumToolResultsA(messages) + (IF pc = "tool" THEN 1 ELSE 0)

\* C13: in variant A the n-th JSON-RPC request carries id n: while the session
\* is going the outstanding request carries the number of requests issued so
\* far, a step that issues a request gives it the id after the last one, and
\* the id counter never decreases and moves only when a request is issued
C13_RequestIdsIncrease ==
    /\ [](variant = "A" /\ pc \in {"main", "list"} \cup InLoop =>
             /\ request_id = RequestsIssuedA
             /\ \A r \in RpcRequests : r.id = RequestsIssuedA)
    /\ [][variant = "A" =>
             /\ request_id' >= request_id
             /\ \A r \in RpcRequests' \ RpcRequests :
                   r.id = request_id + 1 /\ request_id' = request_id + 1
             /\ request_id' # request_id => RpcRequests' \ RpcRequests # {}]_vars

\* the third request of a session, a tool call after a failed one, is outstanding
C13_Witness ==
    /\ variant = "A" /\ pc = "tool" /\ toolErrors = 1
    /\ \E r \in RpcRequests : r.id = 3 /\ r.method = "tools/call"

\* the tool has an input schema whose properties map is non-empty
HasParameters(tool) ==
    /\ "inputSchema" \in DOMAIN tool
    /\ "properties" \in DOMAIN tool.inputSchema
    /\ tool.inputSchema.properties # <<>>

\* the first line of a tool's entry
EntryHead(tool) == "- " \o tool.name \o ": " \o tool.description

\* the entry of each described tool of the registry, written out
ExpectedEntry(tool) ==
    CASE tool = ToolListTables -> "- list_tables: List tables"
      [] tool = ToolPing -> "- ping: Check the server"
      [] tool = ToolStats -> "- get_stats: Server statistics"
      [] tool = ToolDescribe ->
            "- describe_table: Describe a table\n  Parameters:\n    table (string): Table name\n    schema (string): "

\* the entries of a list, newline-separated, in input order
RECURSIVE ExpectedText(_)
ExpectedText(ts) ==
    IF ts = <<>> THEN ""
    ELSE IF Len(ts) = 1 THEN ExpectedEntry(ts[1])
    ELSE ExpectedEntry(ts[1]) \o "\n" \o ExpectedText(Tail(ts))

\* every tool of the list has a name and a description
WellFormed(ts) == \A i \in 1..Len(ts) : {"name", "description"} \subseteq DOMAIN ts[i]

\* C14: for a well-formed tool list the rendering has one entry per tool, in
\* input order, each starting with "- name: description"; the entry is that
\* line alone exactly when the tool has no input schema, a schema without
\* properties or empty properties, and carries a Parameters sub-block after it
\* otherwise; the text is what the system message of the LLM call holds
C14_OneEntryPerTool ==
    WellFormed(tools) =>
        /\ Len(ToolDescriptions(tools)) = Len(tools)
        /\ \A i \in 1..Len(tools) :
              /\ ToolDescriptions(tools)[i] = ExpectedEntry(tools[i])
              /\ (ToolDescriptions(tools)[i] = EntryHead(tools[i])) <=> ~HasParameters(tools[i])
        /\ format_tools_for_ollama(tools) = ExpectedText(tools)
        /\ \A r \in inflight :
              r.to = "llm" =>
                  r.messages[1] = TextMsg("system", Preamble \o ExpectedText(tools) \o Instructions)

\* the LLM is called with a registry of three tools: one with parameters first,
\* then one with empty properties, then one without a schema
C14_Witness ==
    /\ tools = <<ToolDescribe, ToolStats, ToolListTables>>
    /\ \E r \in inflight : r.to = "llm"

\* C15: variant B has no cap on the LLM calls of a turn.  A response with stop
\* reason tool_use never ends the turn, however many calls the turn has made:
\* a tool call or the next LLM call follows.  A response with another stop
\* reason ends it with an answer, and a turn returns an answer in no other
\* step.
C15_NoCapInVariantB ==
    /\ [][\A resp \in AnyResponseB :
             HandleResponseB(resp) =>
                 IF resp.stop_reason = "tool_use"
                 THEN /\ pc' \in {"tool", "llm"}
                      /\ inflight' # {}
                      /\ outcome' = "none"
                      /\ pc' = "llm" => llmCalls' = llmCalls + 1
                 ELSE /\ pc' = "prompt"
                      /\ outcome' = "answer"]_vars
    /\ [][(variant = "B" /\ pc \in InTurn /\ outcome' = "answer") =>
             \E resp \in AnyResponseB :
                 resp.stop_reason # "tool_use" /\ HandleResponseB(resp)]_vars

\* a turn of variant B is at its twelfth LLM call, after eleven tool calls: one
\* call more than a turn of variant A can make
C15_Witness ==
    /\ variant = "B" /\ pc = "llm"
    /\ llmCalls = MaxIterations + 2
    /\ toolCalls = MaxIterations + 1

\* s is a prefix of t
IsPrefix(s, t) == Len(s) <= Len(t) /\ SubSeq(t, 1, Len(s)) = s

\* s is a suffix of t
IsSuffix(s, t) == Len(s) <= Len(t) /\ SubSeq(t, Len(t) - Len(s) + 1, Len(t)) = s

\* C16: in both variants the history is append-only: every step leaves the
\* previous history as a prefix of the new one, and every LLM call that is
\* outstanding was sent the whole history, after the system message if any
C16_HistoryAppendOnly ==
    /\ [][IsPrefix(messages, messages')]_vars
    /\ [](\A h \in LLMCallHistories :
             /\ IsSuffix(messages, h)
             /\ Len(h) = Len(messages) + (IF variant = "A" THEN 1 ELSE 0))

\* the LLM is called in a second turn, after a tool round trip of that turn,
\* on a history that holds the question and the answer of the first turn
C16_Witness ==
    /\ pc = "llm" /\ inflight # {}
    /\ Len(messages) >= 5
    /\ messages[1].ctype = "input"
    /\ messages[2].role = "assistant" /\ messages[2].ctype = "text"
    /\ messages[3].ctype = "input"
    /\ IsToolResult(messages[Len(messages)])

\* the position of the question of the current turn in the history
LastInput(msgs) ==
    CHOOSE i \in 1..Len(msgs) :
        /\ msgs[i].ctype = "input"
        /\ \A j \in (i + 1)..Len(msgs) : msgs[j].ctype # "input"

\* the tool_use blocks of the responses appended in the current turn
TurnToolUses == IdsInHistory(messages) - IdsInHistory(SubSeq(messages, 1, LastInput(messages)))

\* the ids of the entries of a result list, in order
ResultIds(results) == [k \in 1..Len(results) |-> results[k].tool_use_id]

\* C17: at most one request is outstanding at any time.  In variant B, while
\* the call for a tool_use block is outstanding the results collected are
\* those of the tool_use blocks before it, in block order, and the calls made
\* in the turn are those blocks and this one; when the LLM is called again the
\* results appended are those of all the tool_use blocks of the response, in
\* block order, and one tool call has been made for each tool_use block
C17_OneRequestAtATime ==
    /\ Cardinality(inflight) <= 1
    /\ pc \in Waiting <=> Cardinality(inflight) = 1
    /\ (variant = "B" /\ pc = "tool") =>
          /\ inflight = {SessionRequest("tools/call")}
          /\ response.content[blockIdx].type = "tool_use"
          /\ ResultIds(tool_results) = ToolUseIds(SubSeq(response.content, 1, blockIdx - 1))
          /\ toolCalls = TurnToolUses
                         - Len(ToolUseIds(SubSeq(response.content, blockIdx + 1,
                                                 Len(response.content))))
    /\ (variant = "B" /\ pc = "llm" /\ llmCalls > 1) =>
          /\ ResultIds(messages[Len(messages)].items) = ToolUseIds(response.content)
          /\ messages[Len(messages) - 1].items = response.content
          /\ toolCalls = TurnToolUses

\* the call for the second tool_use block of a response is outstanding, the
\* result of the first one collected
C17_Witness ==
    /\ variant = "B" /\ pc = "tool"
    /\ blockIdx = 2 /\ Len(tool_results) = 1
    /\ ToolUseCount(response.content) = 2

\* the reply is a tool invocation by the convention: a JSON object with a tool key
IsToolCallReply(reply) ==
    /\ JsonLoads(StripReply(reply)).ok
    /\ HasToolKey(JsonLoads(StripReply(reply)).value)

\* the texts of the text blocks of a content, concatenated in block order
RECURSIVE ConcatTexts(_)
ConcatTexts(content) ==
    IF content = <<>> THEN ""
    ELSE (IF Head(content).type = "text" THEN Head(content).text ELSE "")
         \o ConcatTexts(Tail(content))

\* the step ends the turn with text as its answer, appended to the history by
\* chat_loop, after one LLM call more than the turn's tool calls
TurnAnswered(text) ==
    /\ pc' = "prompt"
    /\ outcome' = "answer"
    /\ answer' = text
    /\ messages' = Append(messages, AnswerMsg(text))
    /\ inflight' = {}
    /\ llmCalls' = llmCalls /\ toolCalls' = toolCalls
    /\ llmCalls = toolCalls + 1

\* C18: a turn in which the LLM gives k tool-invoking replies and then a final
\* reply ends, in the step that takes the final reply, after exactly k + 1 LLM
\* calls and k tool calls, with the final reply's text as the answer (B: its
\* text blocks concatenated), appended to the history as an assistant message;
\* in A a final reply is any reply that is not a tool invocation, in B any
\* response with a terminal stop reason, the earlier ones holding one tool_use
\* block each
C18_KToolCallsThenAnswer ==
    [][/\ \A reply \in RepliesA :
             (~IsToolCallReply(reply) /\ HandleReplyA(reply)) => TurnAnswered(reply)
       /\ \A resp \in AnyResponseB :
             (/\ resp.stop_reason # "tool_use"
              /\ toolCalls = llmCalls - 1
              /\ HandleResponseB(resp)) => TurnAnswered(ConcatTexts(resp.content))]_vars

\* the roles alternate, starting with user
Alternates(msgs) ==
    \A i \in 1..Len(msgs) : msgs[i].role = (IF i % 2 = 1 THEN "user" ELSE "assistant")

\* C19: as long as no turn has failed the roles of the history alternate,
\* starting with user: a step that neither follows nor is the failure of a
\* turn keeps the alternation (a failure leaves outcome "error" until the
\* next question, which breaks the alternation for good), and a step that
\* ends a turn leaves the returned answer as the last message, an assistant
\* message in an even position; after any answered turn the last message is
\* the answer
C19_RolesAlternate ==
    /\ [][(Alternates(messages) /\ outcome # "error" /\ outcome' # "error") =>
             /\ Alternates(messages')
             /\ (pc \in InTurn /\ outcome' = "answer") =>
                   /\ Len(messages') % 2 = 0
                   /\ messages'[Len(messages')] = AnswerMsg(answer')]_vars
    /\ [](pc = "prompt" /\ outcome = "answer" =>
             /\ messages # <<>>
             /\ messages[Len(messages)] = AnswerMsg(answer))

\* two turns have been answered, the second after a tool round trip, and the
\* roles of the six or more messages alternate
C19_Witness ==
    /\ pc = "prompt" /\ outcome = "answer"
    /\ Len(messages) >= 6
    /\ Alternates(messages)
    /\ messages[3].ctype = "input"
    /\ \E k \in 4..Len(messages) : IsToolResult(messages[k])

\* the lines that are questions
QuestionLines == RawInputs \ (QuitLines \cup BlankLines)

\* C20: the step in which a turn fails leaves the history as it is, the
\* question of the turn and the messages of its tool round trips included,
\* with no answer appended; the next question is appended right after it, and
\* the LLM call that follows is sent the whole history
C20_FailedTurnKeepsHistory ==
    /\ [][(pc \in InTurn /\ outcome' = "error") =>
             /\ messages' = messages
             /\ messages # <<>>
             /\ messages[Len(messages)].role = "user"
             /\ pc' = "prompt"]_vars
    /\ [](pc \in InTurn => \E i \in 1..Len(messages) : messages[i].ctype = "input")
    /\ [][\A raw \in QuestionLines :
             (outcome = "error" /\ ReadLine(raw)) =>
                 /\ messages' = Append(messages, UserMsg(Strip(raw)))
                 /\ variant = "A" => inflight' = {LLMRequestA(tools, messages')}
                 /\ variant = "B" => pc' = "turn_list"]_vars
    /\ [][(variant = "B" /\ pc = "turn_list" /\ pc' = "llm") =>
             inflight' = {LLMRequestB(messages)} /\ messages' = messages]_vars

\* the LLM is called in the turn after a turn that failed after a tool round
\* trip: the history holds the failed turn's question, tool invocation and
\* tool result, then the new question
C20_Witness ==
    /\ pc = "llm" /\ LLMCallHistories # {}
    /\ Len(messages) = 4
    /\ messages[1].ctype = "input"
    /\ IsToolInvocation(messages[2])
    /\ IsToolResult(messages[3])
    /\ messages[4].ctype = "input"
    /\ \A h \in LLMCallHistories : IsSuffix(messages, h)


(***************************************************************************)
(* C21: once started, the session loop of either variant ends only on a    *)
(* quit command or on an interrupt.  A failure of the input read itself    *)
(* (end of input) goes to the same handler as a turn exception: it is      *)
(* printed, no LLM or tool request is made and nothing is appended to the  *)
(* history, and the loop prompts again instead of ending the session.      *)
(***************************************************************************)
C21_InputFailureKeepsLoop ==
    /\ [][InputFails =>
            /\ pc' = "prompt"
            /\ pc' = AfterTurnException
            /\ exitBy' = "none"
            /\ inputError'
            /\ inflight' = {} /\ inflight = {}
            /\ messages' = messages
            /\ llmCalls' = llmCalls
            /\ toolCalls' = toolCalls
            /\ request_id' = request_id
            /\ cleanups' = 0]_vars
    /\ [][(pc \in InLoop /\ pc' \notin InLoop) =>
            exitBy' \in {"quit", "interrupt", "escape"}]_vars
    /\ [](inputError /\ exitBy = "none" => pc = "prompt" /\ inflight = {})

\* the input read failed after an answered turn and the loop is prompting again
C21_Witness ==
    /\ inputError
    /\ pc = "prompt"
    /\ exitBy = "none"
    /\ outcome = "answer"
    /\ Len(messages) >= 2
    /\ cleanups = 0

====
